---- MODULE Spec2Model ----
(***************************************************************************)
(* A model of streamlit-app.py: the cached World Bank fetch                *)
(* (fetch_worldbank_data), the three module-level loads, and the six tabs  *)
(* of the dashboard script, with the inner joins of the Gender Gap and     *)
(* Trend Analysis tabs.                                                    *)
(***************************************************************************)
EXTENDS Integers, Sequences, FiniteSets, TLC

VARIABLES
    clock,              \* seconds since the process started
    cache,              \* st.cache_data store: indicator -> <<>> or <<entry>>
    stub,               \* answers of a stubbed transport: indicator -> set
    ev,                 \* the last fetch_worldbank_data call and how it ended
    lastCall,           \* per indicator, <<>> or the record of its latest call
    pc,                 \* position of the script run
    credit_gdp_df,      \* module-level names: <<>> while unbound, else <<df>>
    account_access_df,
    female_access_df,
    merged_df,
    merged_corr,
    tabs                \* tab number -> how its block ended

vars == <<clock, cache, stub, ev, lastCall, pc, credit_gdp_df,
          account_access_df, female_access_df, merged_df, merged_corr, tabs>>

scriptVars == <<pc, credit_gdp_df, account_access_df, female_access_df,
                merged_df, merged_corr, tabs>>

----------------------------------------------------------------------------
(* Bounds of the model *)

MaxRecs == 3        \* records per payload in the single-call specification
MaxAlignRecs == 2   \* records per payload in the join specification
MaxRunRecs == 2     \* records per payload in the script specification
MaxTicks == 2       \* clock advances in the cache specification
MaxRunTicks == 2    \* clock advances in the script specification

----------------------------------------------------------------------------
(* Program constants *)

TTL == 86400
HTTP_OK == 200

CREDIT == "FS.AST.PRVT.GD.ZS"
ACCOUNT == "FX.OWN.TOTL.ZS"
FEMALE == "FX.OWN.TOTL.FE.ZS"
Indicators == {CREDIT, ACCOUNT, FEMALE}

----------------------------------------------------------------------------
(* JSON values as the provider sends them *)

Null == [t |-> "null"]
JNum(n) == [t |-> "num", n |-> n]
JStr(s) == [t |-> "str", s |-> s]
JArr(items) == [t |-> "arr", items |-> items]
JObj(keys) == [t |-> "obj", keys |-> keys]

\* "date" strings, as sequences of characters
Dates == { <<"2","0","1","5">>, <<"2","0","1","6">>, <<"2","0","1","7">> }
Values == {50, 55}

Meta == JObj({"page", "pages", "per_page", "total"})
ErrorMessage == JObj({"message"})

Records == { [date |-> JStr(d), value |-> v] :
                d \in Dates, v \in {JNum(n) : n \in Values} \cup {Null} }
ValuedRecords == { r \in Records : r.value # Null }

SeqsUpTo(S, n) == UNION { [1..k -> S] : k \in 0..n }

----------------------------------------------------------------------------
(* What requests.get can give back *)

Invalid == [t |-> "invalid"]     \* a body that is not JSON

NetworkError == [kind |-> "error", status |-> 0, body |-> Invalid]
Http(status, body) == [kind |-> "http", status |-> status, body |-> body]

Payload(recs) == JArr(<<Meta, JArr(recs)>>)

ShortBodies == { Null, JArr(<<>>), JArr(<<ErrorMessage>>), ErrorMessage }
Bodies(n) == { Invalid, Meta, JArr(<<Meta, Null>>) } \cup ShortBodies
                \cup { Payload(recs) : recs \in SeqsUpTo(Records, n) }

Statuses == {HTTP_OK, 404, 500}

Responses(n) == { NetworkError }
                  \cup { Http(s, b) : s \in Statuses, b \in Bodies(n) }

----------------------------------------------------------------------------
(* Python and pandas primitives used by the script *)

Return(df) == [out |-> "return", df |-> <<df>>, err |-> ""]
Raise(e) == [out |-> "raise", df |-> <<>>, err |-> e]

\* bool(x) of a parsed JSON value
Truthy(j) ==
    CASE j.t = "null" -> FALSE
      [] j.t = "num" -> j.n # 0
      [] j.t = "str" -> Len(j.s) > 0
      [] j.t = "arr" -> Len(j.items) > 0
      [] j.t = "obj" -> j.keys # {}

\* len(x); numbers have none
HasLen(j) == j.t \in {"str", "arr", "obj"}
PyLen(j) ==
    CASE j.t = "str" -> Len(j.s)
      [] j.t = "arr" -> Len(j.items)
      [] j.t = "obj" -> Cardinality(j.keys)

DigitChars == <<"0","1","2","3","4","5","6","7","8","9">>
DigitVal(c) == (CHOOSE i \in 1..10 : DigitChars[i] = c) - 1

\* int("2015") = 2015
RECURSIVE StrToInt(_)
StrToInt(s) ==
    IF Len(s) = 1 THEN DigitVal(s[1])
    ELSE 10 * StrToInt(SubSeq(s, 1, Len(s) - 1)) + DigitVal(s[Len(s)])

\* pd.DataFrame()
EmptyDataFrame == [columns |-> <<>>, rows |-> <<>>]

\* df.empty
IsEmpty(df) == Len(df.columns) = 0 \/ Len(df.rows) = 0

HasColumn(df, c) == \E i \in 1..Len(df.columns) : df.columns[i] = c

\* pd.json_normalize of a list of flat records
json_normalize(recs) ==
    IF Len(recs) = 0 THEN EmptyDataFrame
    ELSE [columns |-> <<"date", "value">>, rows |-> recs]

\* df = df[['date', 'value']]; df.columns = ['Year', indicator]
select_rename(df, indicator) ==
    [columns |-> <<"Year", indicator>>,
     rows |-> [i \in 1..Len(df.rows) |->
                 [c \in {"Year", indicator} |->
                     IF c = "Year" THEN df.rows[i].date
                     ELSE df.rows[i].value]]]

\* variant: no row is dropped
dropna_keep_all(df) == df

\* df.dropna(inplace=True)
dropna(df) ==
    [df EXCEPT !.rows =
        SelectSeq(df.rows, LAMBDA r : \A c \in DOMAIN r : r[c] # Null)]

\* df['Year'] = df['Year'].astype(int)
astype_int(df) ==
    [df EXCEPT !.rows =
        [i \in 1..Len(df.rows) |->
            [df.rows[i] EXCEPT !["Year"] = StrToInt(df.rows[i]["Year"].s)]]]

Perms(n) == { p \in [1..n -> 1..n] : \A i, j \in 1..n : i # j => p[i] # p[j] }

\* variant: the rows stay in the order received
sort_values_unsorted(df, by) == {df}

\* df.sort_values(by): the default kind is quicksort, which is not stable, so
\* rows with equal keys may come out in any order
sort_values(df, by) ==
    LET n == Len(df.rows)
    IN  { [df EXCEPT !.rows = [i \in 1..n |-> df.rows[p[i]]]] :
            p \in { q \in Perms(n) :
                      \A i \in 1..(n - 1) :
                          df.rows[q[i]][by] <= df.rows[q[i + 1]][by] } }

----------------------------------------------------------------------------
(* fetch_worldbank_data, without its cache: the outcomes of one execution   *)
(* of the body when requests.get gives `response`                           *)

fetch_body(indicator, response) ==
    IF response.kind = "error" THEN { Raise("ConnectionError") }
    ELSE IF response.status = HTTP_OK THEN
        IF response.body = Invalid THEN { Raise("JSONDecodeError") }
        ELSE LET data == response.body IN
            IF ~Truthy(data) THEN { Return(EmptyDataFrame) }
            ELSE IF ~HasLen(data) THEN { Raise("TypeError") }
            ELSE IF ~(PyLen(data) > 1) THEN { Return(EmptyDataFrame) }
            ELSE IF data.t # "arr" THEN { Raise("KeyError") }
            ELSE IF data.items[2].t # "arr" THEN { Raise("NotImplementedError") }
            ELSE LET df == json_normalize(data.items[2].items) IN
                IF ~(HasColumn(df, "date") /\ HasColumn(df, "value"))
                THEN { Raise("KeyError") }
                ELSE { Return(s) :
                        s \in sort_values(
                                astype_int(dropna(select_rename(df, indicator))),
                                "Year") }
    ELSE { Return(EmptyDataFrame) }

----------------------------------------------------------------------------
(* pd.merge(left, right, on=..., how="inner") *)

JoinRow(l, r) ==
    [c \in (DOMAIN l) \cup (DOMAIN r) |-> IF c \in DOMAIN l THEN l[c] ELSE r[c]]

\* one output row per pair of a left and a right row with equal keys, in the
\* order of the left rows and, under one left row, of the right rows
RECURSIVE InnerRows(_, _, _)
InnerRows(lrows, rrows, on) ==
    IF Len(lrows) = 0 THEN <<>>
    ELSE LET l == Head(lrows)
             matches == SelectSeq(rrows, LAMBDA r : r[on] = l[on])
         IN  [i \in 1..Len(matches) |-> JoinRow(l, matches[i])]
                 \o InnerRows(Tail(lrows), rrows, on)

\* how="left": every left row is kept, unmatched ones with a missing right value
RECURSIVE LeftRows(_, _, _, _)
LeftRows(lrows, rrows, on, rcols) ==
    IF Len(lrows) = 0 THEN <<>>
    ELSE LET l == Head(lrows)
             matches == SelectSeq(rrows, LAMBDA r : r[on] = l[on])
             alone == [c \in (DOMAIN l) \cup rcols |->
                          IF c \in DOMAIN l THEN l[c] ELSE Null]
         IN  (IF Len(matches) = 0 THEN <<alone>>
              ELSE [i \in 1..Len(matches) |-> JoinRow(l, matches[i])])
                 \o LeftRows(Tail(lrows), rrows, on, rcols)

MergedColumns(left, right, on) ==
    left.columns \o SelectSeq(right.columns, LAMBDA c : c # on)

\* variant: how="left"
pd_merge_left(left, right, on) ==
    IF ~(HasColumn(left, on) /\ HasColumn(right, on)) THEN Raise("KeyError")
    ELSE Return([columns |-> MergedColumns(left, right, on),
                 rows |-> LeftRows(left.rows, right.rows, on,
                                   {right.columns[i] : i \in 1..Len(right.columns)})])

pd_merge(left, right, on) ==
    IF ~(HasColumn(left, on) /\ HasColumn(right, on)) THEN Raise("KeyError")
    ELSE Return([columns |-> MergedColumns(left, right, on),
                 rows |-> InnerRows(left.rows, right.rows, on)])

\* df[name] = df[a] - df[b]
with_difference(df, name, a, b) ==
    [columns |-> df.columns \o <<name>>,
     rows |-> [i \in 1..Len(df.rows) |->
                 [c \in (DOMAIN df.rows[i]) \cup {name} |->
                     IF c # name THEN df.rows[i][c]
                     ELSE IF df.rows[i][a] = Null \/ df.rows[i][b] = Null
                          THEN Null
                          ELSE JNum(df.rows[i][a].n - df.rows[i][b].n)]]]

\* df.iloc[i] with a negative i counts from the end; out of range raises
iloc_in_range(df, i) == -Len(df.rows) <= i /\ i < Len(df.rows)

----------------------------------------------------------------------------
(* @st.cache_data(ttl=86400) around fetch_worldbank_data *)

NoCall == [key |-> "", net |-> FALSE, result |-> [out |-> "none", df |-> <<>>, err |-> ""]]

\* variant: an entry never expires
cache_live_forever(k) == cache[k] # <<>>

\* an entry answers a call while it is younger than the time-to-live
cache_live(k) == cache[k] # <<>> /\ clock - cache[k][1].storedAt < TTL

\* variant: only a frame with rows is stored
cache_store_nonempty(k, o) ==
    IF o.out = "return" /\ ~IsEmpty(o.df[1])
    THEN [cache EXCEPT ![k] = << [value |-> o.df[1], storedAt |-> clock] >>]
    ELSE cache

\* a returned value is stored under the call's argument; a raise stores nothing
cache_store(k, o) ==
    IF o.out = "return"
    THEN [cache EXCEPT ![k] = << [value |-> o.df[1], storedAt |-> clock] >>]
    ELSE cache

\* one call fetch_worldbank_data(k); `answers` is what requests.get may give
Fetch(k, answers) ==
    IF cache_live(k)
    THEN /\ ev' = [key |-> k, net |-> FALSE, result |-> Return(cache[k][1].value)]
         /\ UNCHANGED cache
    ELSE \E response \in answers :
            \E o \in fetch_body(k, response) :
                /\ ev' = [key |-> k, net |-> TRUE, result |-> o]
                /\ cache' = cache_store(k, o)

----------------------------------------------------------------------------
(* The script: three loads, then the six tab blocks.  An exception that     *)
(* leaves a block ends the run.                                             *)

Tabs == 1..6

Unbound == <<>>

FreshNames ==
    /\ credit_gdp_df' = Unbound
    /\ account_access_df' = Unbound
    /\ female_access_df' = Unbound
    /\ merged_df' = Unbound
    /\ merged_corr' = Unbound
    /\ tabs' = [t \in Tabs |-> "pending"]

\* the first run of the script in the process
StartRun ==
    /\ pc = "idle"
    /\ pc' = "load_credit"
    /\ FreshNames
    /\ UNCHANGED <<clock, cache, stub, ev, lastCall>>

\* a later run: the names are fresh, the cache is the process's
Rerun ==
    /\ pc \in {"done", "crashed"}
    /\ pc' = "load_credit"
    /\ FreshNames
    /\ UNCHANGED <<clock, cache, stub, ev, lastCall>>

\* credit_gdp_df = fetch_worldbank_data("FS.AST.PRVT.GD.ZS")
LoadCredit(answers) ==
    /\ pc = "load_credit"
    /\ Fetch(CREDIT, answers)
    /\ IF ev'.result.out = "return"
       THEN credit_gdp_df' = ev'.result.df /\ pc' = "load_account"
       ELSE pc' = "crashed" /\ UNCHANGED credit_gdp_df
    /\ UNCHANGED <<clock, stub, lastCall, account_access_df,
                   female_access_df, merged_df, merged_corr, tabs>>

\* account_access_df = fetch_worldbank_data("FX.OWN.TOTL.ZS")
LoadAccount(answers) ==
    /\ pc = "load_account"
    /\ Fetch(ACCOUNT, answers)
    /\ IF ev'.result.out = "return"
       THEN account_access_df' = ev'.result.df /\ pc' = "load_female"
       ELSE pc' = "crashed" /\ UNCHANGED account_access_df
    /\ UNCHANGED <<clock, stub, lastCall, credit_gdp_df,
                   female_access_df, merged_df, merged_corr, tabs>>

\* female_access_df = fetch_worldbank_data("FX.OWN.TOTL.FE.ZS")
LoadFemale(answers) ==
    /\ pc = "load_female"
    /\ Fetch(FEMALE, answers)
    /\ IF ev'.result.out = "return"
       THEN female_access_df' = ev'.result.df /\ pc' = "tab1"
       ELSE pc' = "crashed" /\ UNCHANGED female_access_df
    /\ UNCHANGED <<clock, stub, lastCall, credit_gdp_df,
                   account_access_df, merged_df, merged_corr, tabs>>

\* how a tab block ended, and where the run goes from there
EndTab(t, how, next) ==
    /\ tabs' = [tabs EXCEPT ![t] = how]
    /\ pc' = IF how = "error" THEN "crashed" ELSE next

Tab1 ==
    /\ pc = "tab1"
    /\ EndTab(1, "text", "tab2")
    /\ UNCHANGED <<clock, cache, stub, ev, lastCall, credit_gdp_df,
                   account_access_df, female_access_df, merged_df, merged_corr>>

\* the chart, then the metric reading iloc[-1] and iloc[-2]
tab2_block(df) ==
    IF ~IsEmpty(df)
    THEN IF iloc_in_range(df, -1) /\ iloc_in_range(df, -2)
         THEN "chart" ELSE "error"
    ELSE "notice"

Tab2 ==
    /\ pc = "tab2"
    /\ EndTab(2, tab2_block(credit_gdp_df[1]), "tab3")
    /\ UNCHANGED <<clock, cache, stub, ev, lastCall, credit_gdp_df,
                   account_access_df, female_access_df, merged_df, merged_corr>>

tab3_block(df) == IF ~IsEmpty(df) THEN "chart" ELSE "notice"

Tab3 ==
    /\ pc = "tab3"
    /\ EndTab(3, tab3_block(account_access_df[1]), "tab4")
    /\ UNCHANGED <<clock, cache, stub, ev, lastCall, credit_gdp_df,
                   account_access_df, female_access_df, merged_df, merged_corr>>

\* variant: `or` in place of `and`
either_nonempty(a, b) == ~IsEmpty(a) \/ ~IsEmpty(b)

\* if not a.empty and not b.empty
both_nonempty(a, b) == ~IsEmpty(a) /\ ~IsEmpty(b)

Tab4 ==
    /\ pc = "tab4"
    /\ IF both_nonempty(account_access_df[1], female_access_df[1])
       THEN LET m == pd_merge(account_access_df[1], female_access_df[1], "Year")
            IN  IF m.out = "raise"
                THEN EndTab(4, "error", "tab5") /\ UNCHANGED merged_df
                ELSE /\ merged_df' = << with_difference(m.df[1], "Gender Gap",
                                                         ACCOUNT, FEMALE) >>
                     /\ EndTab(4, "chart", "tab5")
       ELSE EndTab(4, "notice", "tab5") /\ UNCHANGED merged_df
    /\ UNCHANGED <<clock, cache, stub, ev, lastCall, credit_gdp_df,
                   account_access_df, female_access_df, merged_corr>>

Tab5 ==
    /\ pc = "tab5"
    /\ IF both_nonempty(credit_gdp_df[1], account_access_df[1])
       THEN LET m == pd_merge(credit_gdp_df[1], account_access_df[1], "Year")
            IN  IF m.out = "raise"
                THEN EndTab(5, "error", "tab6") /\ UNCHANGED merged_corr
                ELSE merged_corr' = m.df /\ EndTab(5, "chart", "tab6")
       ELSE EndTab(5, "notice", "tab6") /\ UNCHANGED merged_corr
    /\ UNCHANGED <<clock, cache, stub, ev, lastCall, credit_gdp_df,
                   account_access_df, female_access_df, merged_df>>

Tab6 ==
    /\ pc = "tab6"
    /\ EndTab(6, "text", "done")
    /\ UNCHANGED <<clock, cache, stub, ev, lastCall, credit_gdp_df,
                   account_access_df, female_access_df, merged_df, merged_corr>>

----------------------------------------------------------------------------
(* Time, and calls made outside a script run *)

\* the clock moves in steps of half the time-to-live
Quantum == TTL \div 2

\* time passes between runs and between calls
Tick(limit) ==
    /\ pc \in {"idle", "done", "crashed"}
    /\ clock < limit * Quantum
    /\ clock' = clock + Quantum
    /\ UNCHANGED <<cache, stub, ev, lastCall, scriptVars>>

\* a call of fetch_worldbank_data(k), recorded as the latest call for k
Call(k, answers) ==
    /\ Fetch(k, answers)
    /\ lastCall' = [lastCall EXCEPT
                       ![k] = << [time |-> clock, net |-> ev'.net,
                                  result |-> ev'.result] >>]
    /\ UNCHANGED <<clock, stub, scriptVars>>

Started ==
    /\ clock = 0
    /\ cache = [k \in Indicators |-> <<>>]
    /\ ev = NoCall
    /\ lastCall = [k \in Indicators |-> <<>>]
    /\ pc = "idle"
    /\ credit_gdp_df = Unbound
    /\ account_access_df = Unbound
    /\ female_access_df = Unbound
    /\ merged_df = Unbound
    /\ merged_corr = Unbound
    /\ tabs = [t \in Tabs |-> "pending"]

----------------------------------------------------------------------------
(* Spec: runs of the script against a provider that may answer anything     *)

RunRecords == { [date |-> JStr(<<"2","0","1","5">>), value |-> JNum(50)],
                [date |-> JStr(<<"2","0","1","6">>), value |-> JNum(55)],
                [date |-> JStr(<<"2","0","1","6">>), value |-> Null] }

RunResponses ==
    { NetworkError, Http(404, ErrorMessage), Http(HTTP_OK, JArr(<<Meta, Null>>)) }
      \cup { Http(HTTP_OK, Payload(recs)) : recs \in SeqsUpTo(RunRecords, MaxRunRecs) }

Init ==
    /\ Started
    /\ stub = [k \in Indicators |-> {}]

Next ==
    \/ StartRun
    \/ Rerun
    \/ LoadCredit(RunResponses)
    \/ LoadAccount(RunResponses)
    \/ LoadFemale(RunResponses)
    \/ Tab1
    \/ Tab2
    \/ Tab3
    \/ Tab4
    \/ Tab5
    \/ Tab6
    \/ Tick(MaxRunTicks)

Spec == Init /\ [][Next]_vars

----------------------------------------------------------------------------
(* SpecFetch: one call, for each indicator and each answer of the transport *)

InitFetch ==
    /\ Started
    /\ \E k \in Indicators, response \in Responses(MaxRecs) :
          stub = [j \in Indicators |-> IF j = k THEN {response} ELSE {}]

NextFetch == \E k \in Indicators : ev = NoCall /\ Call(k, stub[k])

SpecFetch == InitFetch /\ [][NextFetch]_vars

----------------------------------------------------------------------------
(* SpecCache: calls for any indicator at any time *)

CacheResponses ==
    { NetworkError, Http(500, Invalid), Http(HTTP_OK, JArr(<<ErrorMessage>>)),
      Http(HTTP_OK, Payload(<< [date |-> JStr(<<"2","0","1","5">>), value |-> JNum(50)] >>)),
      Http(HTTP_OK, Payload(<< [date |-> JStr(<<"2","0","1","5">>), value |-> JNum(55)] >>)) }

InitCache ==
    /\ Started
    /\ stub = [k \in Indicators |-> {}]

NextCache ==
    \/ \E k \in Indicators : Call(k, CacheResponses)
    \/ Tick(MaxTicks)

SpecCache == InitCache /\ [][NextCache]_vars

----------------------------------------------------------------------------
(* SpecAlign: one run of the script over every pair of record lists for the *)
(* two account-ownership indicators; the credit indicator is either         *)
(* unavailable or answered with the second list                             *)

InitAlign ==
    /\ Started
    /\ \E ra, rb \in SeqsUpTo(ValuedRecords, MaxAlignRecs) :
          \E rc \in { Http(404, ErrorMessage), Http(HTTP_OK, Payload(rb)) } :
              stub = [k \in Indicators |->
                             IF k = ACCOUNT THEN { Http(HTTP_OK, Payload(ra)) }
                             ELSE IF k = FEMALE THEN { Http(HTTP_OK, Payload(rb)) }
                             ELSE { rc }]

NextAlign ==
    \/ StartRun
    \/ LoadCredit(stub[CREDIT])
    \/ LoadAccount(stub[ACCOUNT])
    \/ LoadFemale(stub[FEMALE])
    \/ Tab1
    \/ Tab2
    \/ Tab3
    \/ Tab4
    \/ Tab5
    \/ Tab6

SpecAlign == InitAlign /\ [][NextAlign]_vars

----------------------------------------------------------------------------
(* Vocabulary of the properties *)

Called == ev # NoCall
Returned == ev.result.out = "return"
Answers == stub[ev.key]

IsPayload(r) ==
    /\ r.kind = "http" /\ r.status = HTTP_OK
    /\ r.body.t = "arr" /\ Len(r.body.items) = 2 /\ r.body.items[2].t = "arr"
RecordsOf(r) == r.body.items[2].items

\* the year a date string names, read off independently of the parser
YearOf(d) ==
    CASE d = <<"2","0","1","5">> -> 2015
      [] d = <<"2","0","1","6">> -> 2016
      [] d = <<"2","0","1","7">> -> 2017

YearsOf(df) == [i \in 1..Len(df.rows) |-> df.rows[i]["Year"]]
YearSet(df) == { df.rows[i]["Year"] : i \in 1..Len(df.rows) }

Ascending(ys) == \A i \in 1..(Len(ys) - 1) : ys[i] <= ys[i + 1]
StrictlyAscending(ys) == \A i \in 1..(Len(ys) - 1) : ys[i] < ys[i + 1]

\* no two records with a value name the same year
DistinctValuedYears(recs) ==
    \A i, j \in 1..Len(recs) :
        (i # j /\ recs[i].value # Null /\ recs[j].value # Null)
            => YearOf(recs[i].date.s) # YearOf(recs[j].date.s)

OutOfOrder(recs) ==
    \E i, j \in 1..Len(recs) :
        /\ i < j /\ recs[i].value # Null /\ recs[j].value # Null
        /\ YearOf(recs[i].date.s) > YearOf(recs[j].date.s)

----------------------------------------------------------------------------
(* Properties of one call (SpecFetch) *)

\* C1: when requests.get raises, or the body of a 200 response is not JSON,
\* the call returns an empty frame and nothing is raised
C1_NeverRaisesOnFailedRetrieval ==
    Called =>
        \A r \in Answers :
            (r.kind = "error" \/ (r.status = HTTP_OK /\ r.body = Invalid))
                => ev.result = Return(EmptyDataFrame)

FewerThanTwo(body) ==
    \/ body = Null
    \/ body.t = "arr" /\ Len(body.items) < 2
    \/ body.t = "obj" /\ Cardinality(body.keys) < 2
SecondIsNull(body) ==
    body.t = "arr" /\ Len(body.items) >= 2 /\ body.items[2] = Null

\* C2: on a status other than 200, a body with fewer than two top-level
\* elements, or a null second element, the call returns an empty frame and
\* nothing is raised
C2_EmptyOnBadStatusOrShortBody ==
    Called =>
        \A r \in Answers :
            (r.kind = "http" /\
                (\/ r.status # HTTP_OK
                 \/ r.body # Invalid /\ (FewerThanTwo(r.body) \/ SecondIsNull(r.body))))
                => ev.result = Return(EmptyDataFrame)

----------------------------------------------------------------------------
(* Properties of the joins (SpecAlign) *)

UniqueYears(df) ==
    \A i, j \in 1..Len(df.rows) : i # j => df.rows[i]["Year"] # df.rows[j]["Year"]

\* m has exactly one row for each Year present in both a and b, carrying a's
\* value under ka and b's value under kb, and no row for any other Year
OneRowPerCommonYear(m, a, ka, b, kb) ==
    /\ \A i \in 1..Len(m.rows) : m.rows[i]["Year"] \in YearSet(a) \cap YearSet(b)
    /\ \A ia \in 1..Len(a.rows), ib \in 1..Len(b.rows) :
          a.rows[ia]["Year"] = b.rows[ib]["Year"] =>
              /\ Cardinality({ i \in DOMAIN m.rows :
                                  m.rows[i]["Year"] = a.rows[ia]["Year"] }) = 1
              /\ \E i \in 1..Len(m.rows) :
                    /\ m.rows[i]["Year"] = a.rows[ia]["Year"]
                    /\ m.rows[i][ka] = a.rows[ia][ka]
                    /\ m.rows[i][kb] = b.rows[ib][kb]

\* m has one row for each pair of a row of a and a row of b with the same
\* Year, carrying the values of that pair, and no other row
OneRowPerMatchingPair(m, a, ka, b, kb) ==
    /\ \A i \in 1..Len(m.rows) :
          \E ia \in 1..Len(a.rows), ib \in 1..Len(b.rows) :
              /\ a.rows[ia]["Year"] = m.rows[i]["Year"]
              /\ b.rows[ib]["Year"] = m.rows[i]["Year"]
              /\ a.rows[ia][ka] = m.rows[i][ka]
              /\ b.rows[ib][kb] = m.rows[i][kb]
    /\ \A ia \in 1..Len(a.rows), ib \in 1..Len(b.rows) :
          a.rows[ia]["Year"] = b.rows[ib]["Year"] =>
              Cardinality({ i \in DOMAIN m.rows :
                               /\ m.rows[i]["Year"] = a.rows[ia]["Year"]
                               /\ m.rows[i][ka] = a.rows[ia][ka]
                               /\ m.rows[i][kb] = b.rows[ib][kb] })
                = Cardinality({ i \in DOMAIN a.rows : a.rows[i] = a.rows[ia] })
                    * Cardinality({ i \in DOMAIN b.rows : b.rows[i] = b.rows[ib] })

InnerJoinOf(m, a, ka, b, kb) ==
    /\ OneRowPerMatchingPair(m, a, ka, b, kb)
    /\ (UniqueYears(a) /\ UniqueYears(b)) => OneRowPerCommonYear(m, a, ka, b, kb)

SameOrderEitherWay(m, a, b) ==
    /\ Ascending(YearsOf(m))
    /\ YearsOf(pd_merge(a, b, "Year").df[1]) = YearsOf(m)
    /\ YearsOf(pd_merge(b, a, "Year").df[1]) = YearsOf(m)

\* C7: the rows of each joined table are in ascending order of Year, and the
\* join of the same two frames with left and right exchanged has the same
\* sequence of Years
C7_AscendingEitherWay ==
    /\ tabs[4] = "chart" =>
          SameOrderEitherWay(merged_df[1], account_access_df[1], female_access_df[1])
    /\ tabs[5] = "chart" =>
          SameOrderEitherWay(merged_corr[1], credit_gdp_df[1], account_access_df[1])

\* two or more rows were joined from lists that arrived out of order
C7_Witness ==
    /\ tabs[4] = "chart"
    /\ Len(merged_df[1].rows) >= 2
    /\ \E r \in stub[ACCOUNT] : OutOfOrder(RecordsOf(r))
    /\ \E r \in stub[FEMALE] : OutOfOrder(RecordsOf(r))

----------------------------------------------------------------------------
(* Properties of the script (Spec) *)

NoJoin(t, a, b, m) ==
    (tabs[t] # "pending" /\ (IsEmpty(a[1]) \/ IsEmpty(b[1])))
        => (tabs[t] = "notice" /\ m = Unbound)

\* C8: when a frame a tab joins is empty, the tab ends in its notice without
\* an error, and no joined table (no row, no derived column) is made
C8_EmptyInputNotice ==
    /\ NoJoin(4, account_access_df, female_access_df, merged_df)
    /\ NoJoin(5, credit_gdp_df, account_access_df, merged_corr)

\* the Gender Gap tab met one empty and one non-empty frame
C8_Witness ==
    /\ tabs[4] = "notice"
    /\ ~IsEmpty(account_access_df[1])
    /\ IsEmpty(female_access_df[1])

\* C9: no tab block ends in an unhandled error, whatever the loads returned
C9_NoTabCrashes == \A t \in Tabs : tabs[t] # "error"

----------------------------------------------------------------------------
(* Properties of the cache (SpecCache) *)

\* the step is a call for k; lastCall'[k] is its record, lastCall[k] the
\* record of the call for k before it
CallStep(k) == lastCall'[k] # lastCall[k]
HadCall(k) == lastCall[k] # <<>>
Before(k) == lastCall[k][1]
After(k) == lastCall'[k][1]

\* C5 as stated: a call made less than 86400 seconds after the previous call
\* for the same indicator, which returned, goes without a network call and
\* returns what that call returned
C5_SameWithinTTLOfPreviousCall ==
    [][ \A k \in Indicators :
            (CallStep(k) /\ HadCall(k) /\ Before(k).result.out = "return"
                /\ clock - Before(k).time < TTL)
                => (~After(k).net /\ After(k).result = Before(k).result) ]_vars

EntryAge(k) == clock - cache[k][1].storedAt

\* C5 amended: a call made less than 86400 seconds after the indicator's
\* entry was stored goes without a network call and returns the stored frame,
\* which is what the previous call returned; any other call contacts the
\* provider
C5_SameWithinTTLOfEntry ==
    [][ \A k \in Indicators :
            CallStep(k) =>
                IF cache[k] # <<>> /\ EntryAge(k) < TTL
                THEN /\ ~After(k).net
                     /\ After(k).result = Return(cache[k][1].value)
                     /\ cache'[k] = cache[k]
                     /\ (HadCall(k) /\ Before(k).result.out = "return")
                            => After(k).result = Before(k).result
                ELSE After(k).net ]_vars

\* a call was answered from an entry stored earlier, and an earlier entry of
\* another indicator has outlived the time-to-live
C5_Witness ==
    \E k, j \in Indicators :
        /\ HadCall(k) /\ ~Before(k).net
        /\ Before(k).time > cache[k][1].storedAt
        /\ cache[j] # <<>> /\ EntryAge(j) >= TTL

FailedFetch(c) == c.net /\ c.result = Return(EmptyDataFrame)

\* C10: the empty frame of a failed fetch is stored, and while the entry is
\* younger than 86400 seconds every call returns it without a network call,
\* whatever the provider would answer; a call that raised stores nothing, and
\* the call after it contacts the provider
C10_FailureIsCached ==
    /\ [](\A k \in Indicators :
            (HadCall(k) /\ FailedFetch(Before(k)))
                => cache[k] = << [value |-> EmptyDataFrame,
                                  storedAt |-> Before(k).time] >>)
    /\ [][ \A k \in Indicators :
            CallStep(k) =>
                /\ (cache[k] # <<>> /\ cache[k][1].value = EmptyDataFrame
                        /\ EntryAge(k) < TTL)
                      => (~After(k).net /\ After(k).result = Return(EmptyDataFrame))
                /\ After(k).result.out = "raise" => cache'[k] = cache[k]
                /\ (HadCall(k) /\ Before(k).result.out = "raise")
                      => After(k).net ]_vars

\* a later call got the stored empty frame of a failed fetch
C10_Witness ==
    \E k \in Indicators :
        /\ HadCall(k) /\ ~Before(k).net
        /\ Before(k).result = Return(EmptyDataFrame)
        /\ Before(k).time > cache[k][1].storedAt

====
